---- MODULE Spec2Model ----
(***************************************************************************)
(* Model of the Iris ML API (src/main.py): a FastAPI service with three    *)
(* endpoints (GET /, POST /predict, GET /metrics), a model loaded at       *)
(* import time and two process-wide Prometheus metrics.                    *)
(*                                                                         *)
(* Each element of Reqs is one POST /predict request.  Sync handlers run   *)
(* in a thread pool, so the steps of different requests interleave freely. *)
(* The model artifact is opaque: a call to model.predict either returns a  *)
(* class label or raises, chosen nondeterministically.                     *)
(***************************************************************************)
EXTENDS Integers, FiniteSets, Sequences, TLC

\* ---- bounds ----
NumReqs == 2          \* number of POST /predict requests
MaxElapsed == 1       \* time.time() - start ranges over 0..MaxElapsed

Reqs == 1..NumReqs
Vals == {-1, 0, 1}
Elapsed == 0..MaxElapsed

\* ---- IrisInput ----
Fields == {"sepal_length", "sepal_width", "petal_length", "petal_width"}

\* A JSON body: any subset of the four fields, each with a number.
Inputs == UNION {[S -> Vals] : S \in SUBSET Fields}

NoData == [f \in {} |-> 0]

\* Variant: the fields declared with ge=0 instead of gt=0.
IrisInputGe(d) == \A f \in Fields : f \in DOMAIN d /\ d[f] >= 0

\* Field(..., gt=0) on all four fields: required and strictly positive.
IrisInput(d) == \A f \in Fields : f \in DOMAIN d /\ d[f] > 0

\* ---- model ----
Labels == {0, 1, 2}
ErrMsgs == {"bad input", "bad state"}

NoOutcome == [raised |-> FALSE, ret |-> <<>>, msg |-> ""]

\* What model.predict(features) can do: return one label per row, or raise.
ModelPredict(features) ==
    {[raised |-> FALSE, ret |-> <<l>>, msg |-> ""] : l \in Labels}
        \cup {[raised |-> TRUE, ret |-> <<>>, msg |-> m] : m \in ErrMsgs}

\* features = [[sepal_length, sepal_width, petal_length, petal_width]]
Features(d) ==
    << <<d["sepal_length"], d["sepal_width"], d["petal_length"], d["petal_width"]>> >>

\* Variant: the class index reported one-based.
PredOneBased(o) == o.ret[1] + 1

\* int(model.predict(features)[0])
Pred(o) == o.ret[1]

\* ---- responses ----
NoResp == [status |-> 0, prediction |-> -1, detail |-> "", body |-> <<>>]

VARIABLES
    phase,            \* "starting", "serving" or "exited"
    model,            \* TRUE once joblib.load has returned
    REQUEST_COUNT,    \* Counter api_requests_total
    REQUEST_LATENCY,  \* Histogram api_request_latency_seconds: [count, sum]
    pc,               \* per request: position in POST /predict
    data,             \* per request: the validated IrisInput
    outcome,          \* per request: what model.predict did
    resp,             \* per request: the HTTP response
    predict_calls,    \* number of model.predict invocations so far
    root_resp,        \* last response of GET /
    metrics_pc,       \* GET /metrics: "idle" or "running"
    metrics_resp      \* response of the last completed GET /metrics

vars == <<phase, model, REQUEST_COUNT, REQUEST_LATENCY, pc, data,
          outcome, resp, predict_calls, root_resp, metrics_pc, metrics_resp>>

metricsState == <<REQUEST_COUNT, REQUEST_LATENCY>>
reqVars == <<pc, data, outcome, resp>>
getVars == <<root_resp, metrics_pc, metrics_resp>>

\* ---- where each request is ----
InHandler == {r \in Reqs : pc[r] \in {"entered", "counted", "called", "observed"}}
Rejected == {r \in Reqs : pc[r] = "done" /\ resp[r].status = 422}
Served == {r \in Reqs : pc[r] = "done" /\ resp[r].status \in {200, 400}}
PastInc == {r \in Reqs : pc[r] \in {"counted", "called", "observed"}} \cup Served
PastCall == {r \in Reqs : pc[r] \in {"called", "observed"}} \cup Served
PastObserve == {r \in Reqs : pc[r] = "observed"} \cup Served

Init ==
    /\ phase = "starting"
    /\ model = FALSE
    /\ REQUEST_COUNT = 0
    /\ REQUEST_LATENCY = [count |-> 0, sum |-> 0]
    /\ pc = [r \in Reqs |-> "idle"]
    /\ data = [r \in Reqs |-> NoData]
    /\ outcome = [r \in Reqs |-> NoOutcome]
    /\ resp = [r \in Reqs |-> NoResp]
    /\ predict_calls = 0
    /\ root_resp = NoResp
    /\ metrics_pc = "idle"
    /\ metrics_resp = NoResp

\* ---- startup ----

\* model = joblib.load("model.joblib") returns.
LoadModelOk ==
    /\ phase = "starting"
    /\ model' = TRUE
    /\ phase' = "serving"
    /\ UNCHANGED <<metricsState, reqVars, predict_calls, getVars>>

\* Variant: the load error is swallowed and the app starts without a model.
LoadModelFailIgnored ==
    /\ phase = "starting"
    /\ phase' = "serving"
    /\ UNCHANGED <<model, metricsState, reqVars, predict_calls, getVars>>

\* joblib.load raises: the import of the module fails and the process exits.
LoadModelFail ==
    /\ phase = "starting"
    /\ phase' = "exited"
    /\ UNCHANGED <<model, metricsState, reqVars, predict_calls, getVars>>

\* ---- metrics registry ----

\* Counter.inc()
CounterInc(c) == c + 1

\* Histogram.observe(amount)
HistogramObserve(h, amount) == [count |-> h.count + 1, sum |-> h.sum + amount]

\* Variant: the exposition rendered once at import and reused.
GenerateLatestRenderedAtImport == <<0, 0, 0>>

\* generate_latest(): the exposition of the registry at call time:
\* api_requests_total, api_request_latency_seconds_count and _sum.
GenerateLatest ==
    <<REQUEST_COUNT, REQUEST_LATENCY.count, REQUEST_LATENCY.sum>>

\* ---- GET / ----
\* Variant: GET / counted in api_requests_total as well.
RootCounted ==
    /\ phase = "serving"
    /\ REQUEST_COUNT' = CounterInc(REQUEST_COUNT)
    /\ root_resp' = [status |-> 200, prediction |-> -1,
                     detail |-> "FastAPI ML API is running", body |-> <<>>]
    /\ UNCHANGED <<phase, model, REQUEST_LATENCY, reqVars, predict_calls, metrics_pc,
                   metrics_resp>>

Root ==
    /\ phase = "serving"
    /\ root_resp' = [status |-> 200, prediction |-> -1,
                     detail |-> "FastAPI ML API is running", body |-> <<>>]
    /\ UNCHANGED <<phase, model, metricsState, reqVars, predict_calls, metrics_pc,
                   metrics_resp>>

\* ---- GET /metrics ----

\* A GET /metrics arrives; the response of the previous one is gone.
MetricsStart ==
    /\ phase = "serving"
    /\ metrics_pc = "idle"
    /\ metrics_pc' = "running"
    /\ metrics_resp' = NoResp
    /\ UNCHANGED <<phase, model, metricsState, reqVars, predict_calls, root_resp>>

\* Variant: the counter reset after each scrape.
MetricsRespondResetting ==
    /\ metrics_pc = "running"
    /\ metrics_pc' = "idle"
    /\ metrics_resp' = [status |-> 200, prediction |-> -1, detail |-> "",
                        body |-> GenerateLatest]
    /\ REQUEST_COUNT' = 0
    /\ UNCHANGED <<phase, model, REQUEST_LATENCY, reqVars, predict_calls, root_resp>>

\* return Response(generate_latest(), media_type=CONTENT_TYPE_LATEST)
MetricsRespond ==
    /\ metrics_pc = "running"
    /\ metrics_pc' = "idle"
    /\ metrics_resp' = [status |-> 200, prediction |-> -1, detail |-> "",
                        body |-> GenerateLatest]
    /\ UNCHANGED <<phase, model, metricsState, reqVars, predict_calls, root_resp>>

\* ---- POST /predict ----

\* The framework parses the body against IrisInput before calling the handler;
\* a body that fails the schema is answered 422 and the handler never runs.
Receive(r, d) ==
    /\ phase = "serving"
    /\ pc[r] = "idle"
    /\ IF IrisInput(d)
         THEN /\ pc' = [pc EXCEPT ![r] = "entered"]
              /\ data' = [data EXCEPT ![r] = d]
              /\ resp' = resp
         ELSE /\ pc' = [pc EXCEPT ![r] = "done"]
              /\ data' = data
              /\ resp' = [resp EXCEPT ![r] = [NoResp EXCEPT !.status = 422]]
    /\ UNCHANGED <<phase, model, metricsState, outcome, predict_calls, getVars>>

\* Variant: an unsynchronised read-modify-write; an increment that overlaps
\* another request's increment is lost.
PredictIncRacy(r) ==
    /\ pc[r] = "entered"
    /\ REQUEST_COUNT' = IF \E q \in Reqs \ {r} : pc[q] = "entered"
                          THEN REQUEST_COUNT
                          ELSE CounterInc(REQUEST_COUNT)
    /\ pc' = [pc EXCEPT ![r] = "counted"]
    /\ UNCHANGED <<phase, model, REQUEST_LATENCY, data, outcome, resp,
                   predict_calls, getVars>>

\* Variant: the handler without REQUEST_COUNT.inc().
PredictIncMissing(r) ==
    /\ pc[r] = "entered"
    /\ pc' = [pc EXCEPT ![r] = "counted"]
    /\ UNCHANGED <<phase, model, metricsState, data, outcome, resp,
                   predict_calls, getVars>>

\* REQUEST_COUNT.inc()
PredictInc(r) ==
    /\ pc[r] = "entered"
    /\ REQUEST_COUNT' = CounterInc(REQUEST_COUNT)
    /\ pc' = [pc EXCEPT ![r] = "counted"]
    /\ UNCHANGED <<phase, model, REQUEST_LATENCY, data, outcome, resp,
                   predict_calls, getVars>>

\* start = time.time(); try: features = ...; pred = int(model.predict(features)[0])
PredictCall(r, o) ==
    /\ pc[r] = "counted"
    /\ o \in ModelPredict(Features(data[r]))
    /\ outcome' = [outcome EXCEPT ![r] = o]
    /\ predict_calls' = predict_calls + 1
    /\ pc' = [pc EXCEPT ![r] = "called"]
    /\ UNCHANGED <<phase, model, metricsState, data, resp, getVars>>

\* Variant: the observation made in the try body instead of a finally block.
PredictFinallyOnSuccessOnly(r, e) ==
    /\ pc[r] = "called"
    /\ REQUEST_LATENCY' = IF outcome[r].raised
                            THEN REQUEST_LATENCY
                            ELSE HistogramObserve(REQUEST_LATENCY, e)
    /\ pc' = [pc EXCEPT ![r] = "observed"]
    /\ UNCHANGED <<phase, model, REQUEST_COUNT, data, outcome, resp,
                   predict_calls, getVars>>

\* finally: REQUEST_LATENCY.observe(time.time() - start); e is the elapsed time.
PredictFinally(r, e) ==
    /\ pc[r] = "called"
    /\ REQUEST_LATENCY' = HistogramObserve(REQUEST_LATENCY, e)
    /\ pc' = [pc EXCEPT ![r] = "observed"]
    /\ UNCHANGED <<phase, model, REQUEST_COUNT, data, outcome, resp,
                   predict_calls, getVars>>

\* Variant: no except clause; the framework answers 500.
PredictRespondUncaught(r) ==
    /\ pc[r] = "observed"
    /\ resp' = [resp EXCEPT ![r] =
                  IF outcome[r].raised
                    THEN [NoResp EXCEPT !.status = 500,
                                        !.detail = "Internal Server Error"]
                    ELSE [NoResp EXCEPT !.status = 200,
                                        !.prediction = Pred(outcome[r])]]
    /\ pc' = [pc EXCEPT ![r] = "done"]
    /\ UNCHANGED <<phase, model, metricsState, data, outcome, predict_calls, getVars>>

\* return {"prediction": pred}, or raise HTTPException(400, detail=str(e)),
\* which the framework turns into the 400 response.
PredictRespond(r) ==
    /\ pc[r] = "observed"
    /\ resp' = [resp EXCEPT ![r] =
                  IF outcome[r].raised
                    THEN [NoResp EXCEPT !.status = 400, !.detail = outcome[r].msg]
                    ELSE [NoResp EXCEPT !.status = 200,
                                        !.prediction = Pred(outcome[r])]]
    /\ pc' = [pc EXCEPT ![r] = "done"]
    /\ UNCHANGED <<phase, model, metricsState, data, outcome, predict_calls, getVars>>

Next ==
    \/ LoadModelOk
    \/ LoadModelFail
    \/ Root
    \/ MetricsStart
    \/ MetricsRespond
    \/ \E r \in Reqs, d \in Inputs : Receive(r, d)
    \/ \E r \in Reqs : PredictInc(r)
    \/ \E r \in Reqs : \E o \in ModelPredict(Features(data[r])) : PredictCall(r, o)
    \/ \E r \in Reqs, e \in Elapsed : PredictFinally(r, e)
    \/ \E r \in Reqs : PredictRespond(r)

Spec == Init /\ [][Next]_vars

TypeOK ==
    /\ phase \in {"starting", "serving", "exited"}
    /\ model \in BOOLEAN
    /\ REQUEST_COUNT \in 0..NumReqs
    /\ REQUEST_LATENCY.count \in 0..NumReqs
    /\ REQUEST_LATENCY.sum \in 0..(NumReqs * MaxElapsed)
    /\ predict_calls \in 0..NumReqs
    /\ metrics_pc \in {"idle", "running"}
    /\ \A r \in Reqs : pc[r] \in {"idle", "entered", "counted", "called",
                                  "observed", "done"}

\* ---- properties ----

\* The claims' own reading of "all four fields present and strictly positive".
AllPositive(d) ==
    /\ DOMAIN d = Fields
    /\ d["sepal_length"] > 0
    /\ d["sepal_width"] > 0
    /\ d["petal_length"] > 0
    /\ d["petal_width"] > 0

\* C1: every schema-valid POST /predict, whether it ends in 200 or 400, has
\* increased api_requests_total by exactly 1 and added exactly one observation
\* to api_request_latency_seconds by the time its response is produced: the
\* counter equals the number of requests past line 142, the observation count
\* the number of requests past line 159, and every answered valid request is
\* past both.
C1_ExactlyOncePerRequest ==
    /\ REQUEST_COUNT = Cardinality(PastInc)
    /\ REQUEST_LATENCY.count = Cardinality(PastObserve)
    /\ \A r \in Reqs :
         (pc[r] = "done" /\ AllPositive(data[r])) =>
             /\ resp[r].status \in {200, 400}
             /\ r \in PastInc /\ r \in PastObserve

C1_Witness ==
    \E r, q \in Reqs :
        /\ pc[r] = "done" /\ resp[r].status = 200
        /\ pc[q] = "done" /\ resp[q].status = 400
        /\ REQUEST_COUNT = 2
        /\ REQUEST_LATENCY.count = 2

C3_NoLostUpdate ==
    (\A r \in Reqs : pc[r] = "done") =>
        /\ REQUEST_COUNT = Cardinality(Served)
        /\ REQUEST_LATENCY.count = Cardinality(Served)

C3_Witness ==
    /\ \A r \in Reqs : pc[r] = "done"
    /\ Cardinality(Served) = NumReqs
    /\ REQUEST_COUNT = NumReqs

\* C4 as stated: every valid input is answered 200 with a prediction in
\* {0, 1, 2}.
C4_AlwaysOk ==
    \A r \in Reqs :
        (pc[r] = "done" /\ AllPositive(data[r])) =>
            /\ resp[r].status = 200
            /\ resp[r].prediction \in {0, 1, 2}

\* C4 as amended: a valid input is never rejected by the schema, and it is
\* answered 200 with the model's label, an integer in {0, 1, 2}, whenever the
\* model call returns; when the model call raises it is answered 400.
C4_OkUnlessModelRaises ==
    \A r \in Reqs :
        /\ r \in InHandler => AllPositive(data[r])
        /\ (pc[r] = "done" /\ AllPositive(data[r])) =>
              IF outcome[r].raised
                THEN resp[r].status = 400
                ELSE /\ resp[r].status = 200
                     /\ resp[r].prediction = outcome[r].ret[1]
                     /\ resp[r].prediction \in {0, 1, 2}

C4_Witness ==
    \E r \in Reqs :
        /\ pc[r] = "done"
        /\ AllPositive(data[r])
        /\ resp[r].status = 200
        /\ resp[r].prediction = 2

\* C5: when the model call raises, the response is 400 with the error's
\* message as detail, and the process keeps serving.
C5_ModelErrorContained ==
    \A r \in Reqs :
        outcome[r].raised =>
            /\ phase = "serving"
            /\ pc[r] = "done" =>
                 /\ resp[r].status = 400
                 /\ resp[r].detail = outcome[r].msg

C5_Witness ==
    \E r, q \in Reqs :
        /\ pc[r] = "done"
        /\ outcome[r].raised
        /\ resp[r].detail = "bad state"
        /\ resp[q].status = 200

\* C6: GET / and GET /metrics leave the counter and the histogram unchanged,
\* and a GET /metrics reports exactly their values, so repeated calls with no
\* POST /predict step in between report the same values.
C6_GetsHaveNoEffect ==
    [][(Root \/ MetricsStart \/ MetricsRespond) =>
          /\ REQUEST_COUNT' = REQUEST_COUNT
          /\ REQUEST_LATENCY' = REQUEST_LATENCY
          /\ (MetricsRespond =>
                 metrics_resp'.body = <<REQUEST_COUNT', REQUEST_LATENCY'.count,
                                        REQUEST_LATENCY'.sum>>)]_vars

C6_Witness ==
    /\ root_resp.status = 200
    /\ metrics_resp.status = 200
    /\ metrics_resp.body = <<1, 1, 1>>
    /\ REQUEST_COUNT = 1

\* C7: api_requests_total never decreases from one state to the next.
C7_CounterMonotonic ==
    [][REQUEST_COUNT' >= REQUEST_COUNT]_vars

C7_Witness ==
    /\ REQUEST_COUNT = NumReqs
    /\ metrics_resp.status = 200
    /\ Rejected = {}

\* C8: if loading the model fails at startup, no request to /, /predict or
\* /metrics is ever served: nothing is served without a loaded model.
C8_NoServingWithoutModel ==
    (~model) =>
        /\ phase # "serving"
        /\ \A r \in Reqs : pc[r] = "idle" /\ resp[r] = NoResp
        /\ root_resp = NoResp
        /\ metrics_pc = "idle"
        /\ metrics_resp = NoResp

C8_Witness ==
    phase = "exited"

\* C9: a GET /metrics response reports a counter value and an observation
\* count that include every POST /predict that had returned its response
\* before the exposition was rendered (hence before any later call started).
C9_ScrapeIsFresh ==
    [][MetricsRespond =>
          /\ metrics_resp'.body[1] >= Cardinality(Served)
          /\ metrics_resp'.body[2] >= Cardinality(Served)]_vars

C9_Witness ==
    /\ metrics_resp.status = 200
    /\ Cardinality(Served) = NumReqs
    /\ metrics_resp.body[1] = NumReqs
    /\ metrics_resp.body[2] = NumReqs

\* C10 as stated: the difference between api_requests_total and the
\* observation count is the number of schema-valid requests in flight.
C10_DiffIsInFlight ==
    REQUEST_COUNT - REQUEST_LATENCY.count = Cardinality(InHandler)

\* C10 as amended: the model is invoked only after the increment and the
\* observation is made only after the model call; the observation count is at
\* most api_requests_total, the difference is the number of requests that have
\* executed the increment and not yet the observation, and the two are equal
\* whenever no POST /predict is in flight.
C10_CountedNotYetObserved ==
    /\ predict_calls <= REQUEST_COUNT
    /\ REQUEST_LATENCY.count <= predict_calls
    /\ PastCall \subseteq PastInc
    /\ PastObserve \subseteq PastCall
    /\ REQUEST_LATENCY.count <= REQUEST_COUNT
    /\ REQUEST_COUNT - REQUEST_LATENCY.count =
           Cardinality({r \in Reqs : pc[r] \in {"counted", "called"}})
    /\ (InHandler = {} => REQUEST_COUNT = REQUEST_LATENCY.count)

C10_Witness ==
    \E r, q \in Reqs :
        /\ pc[r] = "called"
        /\ pc[q] = "done" /\ resp[q].status = 200
        /\ REQUEST_COUNT = 2
        /\ REQUEST_LATENCY.count = 1
====
